---- MODULE Spec2Model ----
(***************************************************************************)
(* Model of backend/main.py: the ContractIQ REST backend.                  *)
(*                                                                         *)
(* The persistent store is the three tables users / documents / chunks.    *)
(* Each HTTP request runs in its own SQLAlchemy session (get_db) and is    *)
(* modelled as a request slot r with a program counter pc[r]; a request    *)
(* that has been answered leaves its slot, and its response is kept in     *)
(* `out` until the next response is sent.  Requests                        *)
(* interleave at the granularity of database statements: an action is one  *)
(* statement that reads or writes the tables, with the local code around   *)
(* it.  The SELECT of get_current_user reads a row that no route updates   *)
(* or deletes, so it is taken together with the handler's first statement. *)
(* A session only ever reads committed rows of other sessions; rows it has *)
(* flushed but not yet committed live in tx[r] and reach the tables on     *)
(* db.commit() only.  The timestamp columns are not modelled.              *)
(***************************************************************************)
EXTENDS Integers, Sequences, FiniteSets, TLC

\* ---------------------------------------------------------------- bounds
NumReq  == 2      \* request slots that may be in flight at the same time
MaxDocs == 1      \* documents ids that may be generated (upload attempts)
MaxTime == 7      \* the clock (in days) stops here

Req == 1..NumReq

\* ---------------------------------------------------------------- inputs
\* two addresses that differ in case only: the lookup is an exact match
Emails    == {"a@x.com", "A@x.com"}
Usernames == {"alice"}
Passwords == {"pw1", "pw2"}
Salts     == {"s1", "s2"}
Queries   == {"termination"}
Files     == { [filename |-> "lease.pdf", content_type |-> "application/pdf"],
               [filename |-> "scan.png",  content_type |-> "image/png"] }

\* ---------------------------------------------------------------- constants
TokenDays  == 7     \* timedelta(days=7)
Limit      == 5     \* .limit(5)
TopK       == 3     \* chunks[:3]
Confidence == 94    \* "confidence": 94
BaseRel    == 85    \* 85 + (i * 3)
RelStep    == 3

AllowedTypes == { "application/pdf", "text/plain",
    "application/vnd.openxmlformats-officedocument.wordprocessingml.document" }

JWT_SECRET == "your-super-secure-secret"

VARIABLES
    users,      \* table users      (committed rows)
    documents,  \* table documents  (committed rows)
    chunks,     \* table chunks     (committed rows)
    now,        \* datetime.utcnow(), in days
    nextDoc,    \* number of document ids generated so far
    pc,         \* pc[r]: where the request in slot r is in its handler
    arg,        \* arg[r]: the request's parameters
    cur,        \* cur[r]: current_user.user_id (0 when unauthenticated)
    loc,        \* loc[r]: the handler's local rows (document / chunks)
    tx,         \* tx[r]: rows written by r's session and not yet committed
    out         \* the response sent last, with the request it answers

vars == <<users, documents, chunks, now, nextDoc, pc, arg, cur, loc, tx, out>>

\* ---------------------------------------------------------------- helpers
\* str(uuid) and the comparison of a UUID column with such a string
UuidStr(id)   == <<"uuid", id>>
UuidOf(s)     == s[2]

\* bcrypt.hashpw(password, salt): the salt is stored in the hash
Hashpw(password, salt) == [salt |-> salt, digest |-> <<salt, password>>]
Checkpw(password, hash) == Hashpw(password, hash.salt) = hash

\* jwt.encode({"sub", "exp"}, secret, HS256)
Sign(sub, exp, secret) == <<"HS256", sub, exp, secret>>
JwtEncode(sub, exp, secret) == [sub |-> sub, exp |-> exp, sig |-> Sign(sub, exp, secret)]
ForgedToken == JwtEncode(UuidStr(1), MaxTime + TokenDays + 1, "guess")

IssueToken(user_id, t) == JwtEncode(UuidStr(user_id), t + TokenDays, JWT_SECRET)

\* responses
Http(status, detail, body) == [status |-> status, detail |-> detail, body |-> body]
NoResp           == Http(0, "", <<>>)
Ok(body)         == Http(200, "", <<body>>)
EmailRegistered  == Http(400, "Email already registered", <<>>)
UnsupportedType  == Http(400, "Unsupported file type", <<>>)
InvalidCreds     == Http(401, "Invalid credentials", <<>>)
InvalidToken     == Http(401, "Invalid token", <<>>)
UserNotFound     == Http(401, "User not found", <<>>)
ContractNotFound == Http(404, "Contract not found", <<>>)
ServerError      == Http(500, "Internal Server Error", <<>>)

NoTx == [documents |-> {}, chunks |-> {}]

\* all the orders in which a query without ORDER BY may return the rows S
RECURSIVE Orders(_)
Orders(S) == IF S = {} THEN {<<>>}
             ELSE UNION { { <<x>> \o s : s \in Orders(S \ {x}) } : x \in S }
Prefix(s, n) == SubSeq(s, 1, IF Len(s) < n THEN Len(s) ELSE n)


\* ---------------------------------------------------------------- store
\* the users table without its unique index on email
NoUniqueIndex(email) == FALSE

\* Column(String, unique=True): the INSERT of a second row with this email fails
UniqueViolation(email) == \E u \in users : u.email = email

UserByEmail(email) == { u \in users : u.email = email }
UserById(id)       == { u \in users : u.user_id = id }
ChunksOfDoc(doc_id) == { c \in chunks : c.doc_id = doc_id }
DocById(doc_id)    == { d \in documents : d.doc_id = doc_id }

\* mock_llamacloud_parse(content, filename)["chunks"]
MockChunks(filename) ==
    << [text |-> "Termination clause: Either party may terminate with 90 days' notice.",
        metadata |-> [page |-> 2, contract_name |-> filename]],
       [text |-> "Liability cap: Limited to 12 months' fees.",
        metadata |-> [page |-> 5, contract_name |-> filename]] >>

\* uuid4() of the k-th chunk of a document
ChunkId(doc_id, k) == <<doc_id, k>>

\* ---------------------------------------------------------------- auth
\* jwt.decode(token, JWT_SECRET, algorithms=["HS256"]): signature, then expiry
JwtValid(token, t) == token.sig = Sign(token.sub, token.exp, JWT_SECRET) /\ t < token.exp

\* get_current_user: the user row, or the 401 it raises
GetCurrentUser(token, t) ==
    IF ~JwtValid(token, t) THEN [user_id |-> 0, err |-> InvalidToken]
    ELSE IF UserById(UuidOf(token.sub)) = {} THEN [user_id |-> 0, err |-> UserNotFound]
    ELSE [user_id |-> UuidOf(token.sub), err |-> NoResp]

\* The tokens a client can present.  /api/login changes nothing in the store,
\* so a registered user may hold the token of a login at any earlier moment
\* of the clock; anything else a client sends is a forgery.
Moments == { t \in 0..now : \E a, b \in 0..now : t = a * (TokenDays - 1) + b * TokenDays }
Presentable == { IssueToken(u.user_id, t) : u \in users, t \in Moments } \cup {ForgedToken}

\* a request for route o with parameters a, authenticated as user_id and
\* holding the rows l, is answered with x; its slot r is free again
Reply(r, o, a, user_id, l, x) ==
    /\ out' = [op |-> o, arg |-> a, cur |-> user_id, loc |-> l, resp |-> x]
    /\ pc'  = [pc EXCEPT ![r] = "idle"]
    /\ arg' = [arg EXCEPT ![r] = <<>>]
    /\ cur' = [cur EXCEPT ![r] = 0]
    /\ loc' = [loc EXCEPT ![r] = <<>>]

\* a request with parameters a, authenticated as user_id and holding the rows
\* l, takes slot r and goes on at `next`
Enter(r, next, a, user_id, l) ==
    /\ pc'  = [pc EXCEPT ![r] = next]
    /\ arg' = [arg EXCEPT ![r] = a]
    /\ cur' = [cur EXCEPT ![r] = user_id]
    /\ loc' = [loc EXCEPT ![r] = l]
    /\ out' = out

NoOut == [op |-> "none", arg |-> <<>>, cur |-> 0, loc |-> <<>>, resp |-> NoResp]

Init ==
    /\ users = {} /\ documents = {} /\ chunks = {}
    /\ now = 0 /\ nextDoc = 0
    /\ pc   = [r \in Req |-> "idle"]
    /\ arg  = [r \in Req |-> <<>>]
    /\ cur  = [r \in Req |-> 0]
    /\ loc  = [r \in Req |-> <<>>]
    /\ tx   = [r \in Req |-> NoTx]
    /\ out  = NoOut

\* ---------------------------------------------------------------- /api/signup
\* lines 141-146: the existence check
Signup(r, username, email, password) ==
    LET a == [username |-> username, email |-> email, password |-> password] IN
    /\ pc[r] = "idle"
    /\ IF UserByEmail(email) # {}
       THEN Reply(r, "signup", a, 0, <<>>, EmailRegistered)
       ELSE Enter(r, "signup_commit", a, 0, <<>>)
    /\ UNCHANGED <<users, documents, chunks, now, nextDoc, tx>>

\* lines 148-163: hash (salt: bcrypt.gensalt()), INSERT + COMMIT, token.  The
\* INSERT is sent by db.commit(); when the unique index rejects it the
\* IntegrityError is not caught and the request ends as a 500.
SignupCommit(r, salt) ==
    /\ pc[r] = "signup_commit"
    /\ IF UniqueViolation(arg[r].email)
       THEN /\ Reply(r, "signup", arg[r], 0, <<>>, ServerError)
            /\ users' = users
       ELSE LET id    == Cardinality(users) + 1
                user  == [user_id |-> id, username |-> arg[r].username,
                          email |-> arg[r].email,
                          password_hash |-> Hashpw(arg[r].password, salt)]
                token == IssueToken(id, now)
            IN /\ users' = users \cup {user}
               /\ Reply(r, "signup", arg[r], 0, <<>>,
                        Ok([token |-> token,
                            user |-> [id |-> UuidStr(id), username |-> arg[r].username,
                                      email |-> arg[r].email]]))
    /\ UNCHANGED <<documents, chunks, now, nextDoc, tx>>

\* ---------------------------------------------------------------- /api/login
\* a login that looks the account up and never compares the password
VerifiedByEmail(email, password) == UserByEmail(email)

\* line 168: the rows that pass the credential check
Verified(email, password) ==
    { u \in UserByEmail(email) : Checkpw(password, u.password_hash) }

\* lines 166-178
Login(r, email, password) ==
    LET a == [email |-> email, password |-> password] IN
    /\ pc[r] = "idle"
    /\ IF Verified(email, password) = {}
       THEN Reply(r, "login", a, 0, <<>>, InvalidCreds)
       ELSE \E user \in Verified(email, password) :
            LET token == IssueToken(user.user_id, now) IN
            Reply(r, "login", a, 0, <<>>,
                  Ok([token |-> token,
                      user |-> [id |-> UuidStr(user.user_id),
                                username |-> user.username, email |-> user.email]]))
    /\ UNCHANGED <<users, documents, chunks, now, nextDoc, tx>>

\* ---------------------------------------------------------------- /api/upload
\* a session in autocommit mode: the flush is a commit of its own
FlushAutocommit(r, document) ==
    /\ documents' = documents \cup {document}
    /\ UNCHANGED <<chunks, tx>>

\* lines 197-204: Document(...), db.add, db.flush(): the row is INSERTed inside
\* the session's open transaction and gets its doc_id
Flush(r, document) ==
    /\ tx' = [tx EXCEPT ![r].documents = @ \cup {document}]
    /\ UNCHANGED <<documents, chunks>>

\* lines 181-204: dependencies, content-type check, parse, document, flush
Upload(r, token, file) ==
    LET a == [token |-> token, file |-> file]
        u == GetCurrentUser(token, now)
        document == [doc_id |-> nextDoc + 1, user_id |-> u.user_id,
                     filename |-> file.filename, status |-> "Active", risk_score |-> "Low"]
    IN
    /\ pc[r] = "idle"
    /\ IF u.user_id = 0
       THEN /\ Reply(r, "upload", a, 0, <<>>, u.err)
            /\ UNCHANGED <<documents, chunks, nextDoc, tx>>
       ELSE IF file.content_type \notin AllowedTypes
       THEN /\ Reply(r, "upload", a, u.user_id, <<>>, UnsupportedType)
            /\ UNCHANGED <<documents, chunks, nextDoc, tx>>
       ELSE /\ nextDoc < MaxDocs
            /\ nextDoc' = nextDoc + 1
            /\ Flush(r, document)
            /\ Enter(r, "upload_add", a, u.user_id, <<document>>)
    /\ UNCHANGED <<users, now>>

\* a Chunk whose user_id is filled from the wrong id
NewChunkMixedIds(document, user_id, k, chunk_data) ==
    [chunk_id |-> ChunkId(document.doc_id, k), doc_id |-> document.doc_id,
     user_id |-> document.doc_id, text_chunk |-> chunk_data.text,
     metadata |-> chunk_data.metadata, page_number |-> chunk_data.metadata.page]

\* lines 208-215: the Chunk built for chunk_data number k
NewChunk(document, user_id, k, chunk_data) ==
    [chunk_id |-> ChunkId(document.doc_id, k), doc_id |-> document.doc_id,
     user_id |-> user_id, text_chunk |-> chunk_data.text,
     metadata |-> chunk_data.metadata, page_number |-> chunk_data.metadata.page]

\* lines 207-216: one turn of the loop over parse_result["chunks"]
UploadAddChunk(r) ==
    /\ pc[r] = "upload_add"
    /\ LET parsed == MockChunks(arg[r].file.filename)
           k      == Cardinality(tx[r].chunks) + 1
       IN /\ tx' = [tx EXCEPT ![r].chunks = @ \cup {NewChunk(loc[r][1], cur[r], k, parsed[k])}]
          /\ pc' = [pc EXCEPT ![r] = IF k = Len(parsed) THEN "upload_commit" ELSE "upload_add"]
    /\ UNCHANGED <<users, documents, chunks, now, nextDoc, arg, cur, loc, out>>

\* lines 218-224: db.commit() publishes the document and its chunks at once
UploadCommit(r) ==
    /\ pc[r] = "upload_commit"
    /\ documents' = documents \cup tx[r].documents
    /\ chunks'    = chunks \cup tx[r].chunks
    /\ tx' = [tx EXCEPT ![r] = NoTx]
    /\ Reply(r, "upload", arg[r], cur[r], loc[r],
             Ok([document_id |-> UuidStr(loc[r][1].doc_id),
                 filename |-> arg[r].file.filename,
                 chunks_processed |-> Len(MockChunks(arg[r].file.filename))]))
    /\ UNCHANGED <<users, now, nextDoc>>

\* an exception after the flush (the store goes away, a bad row): it leaves
\* the handler, get_db's finally runs db.close(), which rolls the open
\* transaction back
UploadFail(r) ==
    /\ pc[r] \in {"upload_add", "upload_commit"}
    /\ tx' = [tx EXCEPT ![r] = NoTx]
    /\ Reply(r, "upload", arg[r], cur[r], loc[r], ServerError)
    /\ UNCHANGED <<users, documents, chunks, now, nextDoc>>

\* ---------------------------------------------------------------- /api/contracts
\* list_contracts without its filter on the owner
ListFilterAll(user_id) == documents

\* line 229: the rows list_contracts selects
ListFilter(user_id) == { d \in documents : d.user_id = user_id }

Summary(i, doc) ==
    [id |-> UuidStr(doc.doc_id), name |-> doc.filename,
     status |-> doc.status, risk_score |-> doc.risk_score]

\* lines 227-237
ListContracts(r, token) ==
    LET a == [token |-> token]
        u == GetCurrentUser(token, now) IN
    /\ pc[r] = "idle"
    /\ IF u.user_id = 0
       THEN Reply(r, "list", a, 0, <<>>, u.err)
       ELSE \E rows \in Orders(ListFilter(u.user_id)) :
               Reply(r, "list", a, u.user_id, <<>>,
                     Http(200, "", [i \in 1..Len(rows) |-> Summary(i, rows[i])]))
    /\ UNCHANGED <<users, documents, chunks, now, nextDoc, tx>>

\* ---------------------------------------------------------------- /api/contracts/{id}
\* get_contract without its filter on the owner
GetFilterAnyOwner(contract_id, user_id) ==
    { d \in documents : d.doc_id = UuidOf(contract_id) }

\* lines 242-245: the rows get_contract selects
GetFilter(contract_id, user_id) ==
    { d \in documents : d.doc_id = UuidOf(contract_id) /\ d.user_id = user_id }

\* lines 240-248
GetContract(r, token, contract_id) ==
    LET a == [token |-> token, contract_id |-> contract_id]
        u == GetCurrentUser(token, now) IN
    /\ pc[r] = "idle"
    /\ IF u.user_id = 0
       THEN Reply(r, "get", a, 0, <<>>, u.err)
       ELSE IF GetFilter(contract_id, u.user_id) = {}
       THEN Reply(r, "get", a, u.user_id, <<>>, ContractNotFound)
       ELSE \E document \in GetFilter(contract_id, u.user_id) :
               Enter(r, "get_chunks", a, u.user_id, <<document>>)
    /\ UNCHANGED <<users, documents, chunks, now, nextDoc, tx>>

ChunkView(i, chunk) ==
    [id |-> UuidStr(chunk.chunk_id), text |-> chunk.text_chunk,
     page |-> chunk.page_number, metadata |-> chunk.metadata]

\* lines 251-264
GetChunks(r) ==
    /\ pc[r] = "get_chunks"
    /\ \E rows \in Orders(ChunksOfDoc(loc[r][1].doc_id)) :
          Reply(r, "get", arg[r], cur[r], loc[r],
                Ok([id |-> UuidStr(loc[r][1].doc_id), name |-> loc[r][1].filename,
                    status |-> loc[r][1].status, risk_score |-> loc[r][1].risk_score,
                    chunks |-> [i \in 1..Len(rows) |-> ChunkView(i, rows[i])]]))
    /\ UNCHANGED <<users, documents, chunks, now, nextDoc, tx>>

\* ---------------------------------------------------------------- /api/ask
\* query_contracts without its filter on the owner
AskFilterAll(user_id) == chunks

\* line 277: the rows query_contracts selects (before .limit)
AskFilter(user_id) == { c \in chunks : c.user_id = user_id }

\* line 291: enumerate() counts from 0
Relevance(i) == BaseRel + ((i - 1) * RelStep)

\* lines 287-292: chunk.document is loaded through the doc_id foreign key
Source(i, chunk) ==
    [contract_name |-> (CHOOSE d \in DocById(chunk.doc_id) : TRUE).filename,
     excerpt |-> chunk.text_chunk, page |-> chunk.page_number, relevance |-> Relevance(i)]

\* lines 279-293: the answer built from the rows found
AskResponse(query, found) ==
    LET top == Prefix(found, TopK) IN
    IF \E i \in 1..Len(top) : DocById(top[i].doc_id) = {}
    THEN ServerError                              \* chunk.document is None
    ELSE Ok([answer |-> <<"Based on your contracts", query>>,
             confidence |-> Confidence,
             sources |-> [i \in 1..Len(top) |-> Source(i, top[i])]])

\* lines 267-293
QueryContracts(r, token, query) ==
    LET a == [token |-> token, query |-> query]
        u == GetCurrentUser(token, now) IN
    /\ pc[r] = "idle"
    /\ IF u.user_id = 0
       THEN Reply(r, "ask", a, 0, <<>>, u.err)
       ELSE \E rows \in Orders(AskFilter(u.user_id)) :
            LET found == Prefix(rows, Limit) IN
            Reply(r, "ask", a, u.user_id, found, AskResponse(query, found))
    /\ UNCHANGED <<users, documents, chunks, now, nextDoc, tx>>

\* ---------------------------------------------------------------- clock
\* time passes between two steps: a little less than a token's life, or all of it
Tick(days) ==
    /\ now + days <= MaxTime
    /\ now' = now + days
    /\ UNCHANGED <<users, documents, chunks, nextDoc, pc, arg, cur, loc, tx, out>>

\* every route, every input
Next ==
    \/ \E r \in Req, u \in Usernames, e \in Emails, p \in Passwords : Signup(r, u, e, p)
    \/ \E r \in Req, salt \in Salts : SignupCommit(r, salt)
    \/ \E r \in Req, e \in Emails, p \in Passwords : Login(r, e, p)
    \/ \E r \in Req, t \in Presentable, f \in Files : Upload(r, t, f)
    \/ \E r \in Req : UploadAddChunk(r)
    \/ \E r \in Req : UploadCommit(r)
    \/ \E r \in Req : UploadFail(r)
    \/ \E r \in Req, t \in Presentable : ListContracts(r, t)
    \/ \E r \in Req, t \in Presentable, id \in 0..MaxDocs : GetContract(r, t, UuidStr(id))
    \/ \E r \in Req : GetChunks(r)
    \/ \E r \in Req, t \in Presentable, q \in Queries : QueryContracts(r, t, q)
    \/ \E days \in {TokenDays - 1, TokenDays} : Tick(days)

Spec == Init /\ [][Next]_vars

\* accounts and tokens: signup, login, the clock, and one authenticated route
NextAuth ==
    \/ \E r \in Req, u \in Usernames, e \in Emails, p \in Passwords : Signup(r, u, e, p)
    \/ \E r \in Req, salt \in Salts : SignupCommit(r, salt)
    \/ \E r \in Req, e \in Emails, p \in Passwords : Login(r, e, p)
    \/ \E r \in Req, t \in Presentable : ListContracts(r, t)
    \/ \E days \in {TokenDays - 1, TokenDays} : Tick(days)

SpecAuth == Init /\ [][NextAuth]_vars

\* documents and chunks: every route but login, with one password, one salt
\* and the clock standing still (the document routes read none of them)
NextDocs ==
    \/ \E r \in Req, u \in Usernames, e \in Emails : Signup(r, u, e, "pw1")
    \/ \E r \in Req : SignupCommit(r, "s1")
    \/ \E r \in Req, t \in Presentable, f \in Files : Upload(r, t, f)
    \/ \E r \in Req : UploadAddChunk(r)
    \/ \E r \in Req : UploadCommit(r)
    \/ \E r \in Req : UploadFail(r)
    \/ \E r \in Req, t \in Presentable : ListContracts(r, t)
    \/ \E r \in Req, t \in Presentable, id \in 0..MaxDocs : GetContract(r, t, UuidStr(id))
    \/ \E r \in Req : GetChunks(r)
    \/ \E r \in Req, t \in Presentable, q \in Queries : QueryContracts(r, t, q)

SpecDocs == Init /\ [][NextDocs]_vars


\* ================================================================ properties
\* the response sent last answers a request to route o
Sent(o)     == out.op = o
Body        == out.resp.body[1]
Min(a, b)   == IF a < b THEN a ELSE b
DocsOf(user_id)   == { d \in documents : d.user_id = user_id }
ChunksOf(user_id) == { c \in chunks : c.user_id = user_id }
\* the chunk ids an ingestion of document d creates
IngestedIds(d) == { ChunkId(d.doc_id, k) : k \in 1..Len(MockChunks(d.filename)) }
\* the account an email and a password belong to
Account(email, password) ==
    { u \in users : u.email = email
                    /\ u.password_hash = Hashpw(password, u.password_hash.salt) }

\* ---------------------------------------------------------------- C1
\* C1: in every reachable state, whatever the interleaving of signups (two
\* signups of one email may both pass the existence check before either
\* commits), at most one user row has a given email (exact match).
C1_EmailUnique ==
    \A u, v \in users : u.email = v.email => u = v

\* a signup passed the existence check and was then rejected by the store:
\* another signup of the same email committed in between
C1_Witness ==
    /\ Sent("signup") /\ out.resp = ServerError
    /\ Cardinality(UserByEmail(out.arg.email)) = 1

\* ---------------------------------------------------------------- C2
\* C2: of two signups with the same email, run in sequence or overlapping, the
\* one that does not create the user always ends with the 400 "Email already
\* registered", carries no token and leaves the users unchanged.
C2_SecondSignupConflicts ==
    (Sent("signup") /\ out.resp.status # 200)
        => /\ out.resp = EmailRegistered
           /\ Cardinality(UserByEmail(out.arg.email)) = 1

\* ---------------------------------------------------------------- C3
\* C3: a document and its chunks are persisted together or not at all.  The
\* tables never hold a document without the full chunk set of its ingestion
\* nor a chunk without its document; no get_contract, list_contracts or
\* query_contracts response shows a partial ingestion; an upload that failed
\* after the flush left no row behind.
C3_AllOrNothing ==
    /\ \A d \in documents : { c.chunk_id : c \in ChunksOfDoc(d.doc_id) } = IngestedIds(d)
    /\ \A c \in chunks : DocById(c.doc_id) # {}
    /\ (Sent("get") /\ out.resp.status = 200)
          => { c.id : c \in { Body.chunks[i] : i \in 1..Len(Body.chunks) } }
                = { UuidStr(id) : id \in
                      IngestedIds([doc_id |-> UuidOf(Body.id), filename |-> Body.name]) }
    /\ (Sent("list") /\ out.resp.status = 200)
          => \A i \in 1..Len(out.resp.body) :
                \E d \in documents :
                    /\ UuidStr(d.doc_id) = out.resp.body[i].id
                    /\ Cardinality(ChunksOfDoc(d.doc_id)) = Cardinality(IngestedIds(d))
    /\ (Sent("ask") /\ out.cur # 0)
          => /\ out.resp.status = 200
             /\ \A i \in 1..Len(out.loc) : DocById(out.loc[i].doc_id) # {}
    /\ (Sent("upload") /\ out.resp = ServerError)
          => /\ DocById(out.loc[1].doc_id) = {}
             /\ ChunksOfDoc(out.loc[1].doc_id) = {}

\* a reader during an ingestion: the document and its chunks are written
\* and not yet committed, and their owner, asking for that document, has
\* been told that it does not exist
C3_Witness ==
    \E r \in Req :
        /\ pc[r] = "upload_commit" /\ tx[r].documents # {} /\ tx[r].chunks # {}
        /\ Sent("get") /\ out.cur = cur[r] /\ out.resp = ContractNotFound
        /\ UuidOf(out.arg.contract_id) = loc[r][1].doc_id

\* ---------------------------------------------------------------- C4
\* C4: get_contract for a document that exists and belongs to another user
\* answers 404 "Contract not found" with no field of the document, the very
\* response it gives for an id that no document has.
C4_NotFoundForOthers ==
    (Sent("get") /\ out.cur # 0)
        => LET id == UuidOf(out.arg.contract_id) IN
           /\ (\E d \in DocById(id) : d.user_id # out.cur) => out.resp = ContractNotFound
           /\ DocById(id) = {} => out.resp = ContractNotFound

C4_Witness ==
    /\ Sent("get") /\ out.cur # 0 /\ out.resp = ContractNotFound
    /\ \E d \in DocById(UuidOf(out.arg.contract_id)) : d.user_id # out.cur

\* ---------------------------------------------------------------- C5
\* C5: every source query_contracts returns is built from a chunk owned by
\* the requesting user, of a document owned by the requesting user; a user
\* who owns no chunk gets no source, whatever the others have uploaded.
C5_SourcesAreOwn ==
    (Sent("ask") /\ out.cur # 0 /\ out.resp.status = 200)
        => /\ Len(Body.sources) = Min(Len(out.loc), TopK)
           /\ \A i \in 1..Len(Body.sources) :
                 /\ Body.sources[i].excerpt = out.loc[i].text_chunk
                 /\ Body.sources[i].page = out.loc[i].page_number
                 /\ out.loc[i].user_id = out.cur
                 /\ \A d \in DocById(out.loc[i].doc_id) : d.user_id = out.cur
           /\ ChunksOf(out.cur) = {} => Body.sources = <<>>

\* a user without uploads asked while another user's chunks were stored
C5_Witness ==
    /\ Sent("ask") /\ out.cur # 0 /\ out.resp.status = 200
    /\ Body.sources = <<>> /\ ChunksOf(out.cur) = {} /\ chunks # {}

\* ---------------------------------------------------------------- C6
\* C6: in every reachable state the document a stored chunk refers to exists
\* and has the chunk's user_id.
C6_ChunkOwnerIsDocOwner ==
    \A c \in chunks : \E d \in documents : d.doc_id = c.doc_id /\ d.user_id = c.user_id

\* chunks are stored, and there is another user they could have gone to
C6_Witness ==
    \E c \in chunks : \E u \in users : u.user_id # c.user_id

\* ---------------------------------------------------------------- C7
\* C7: list_contracts returns exactly the committed documents of the
\* requesting user, each once: all those an upload of that user has
\* answered 200 for, and never a document of another user.
C7_ListedAreOwn ==
    (Sent("list") /\ out.cur # 0)
        => /\ out.resp.status = 200
           /\ \A i \in 1..Len(out.resp.body) :
                 \E d \in documents : /\ UuidStr(d.doc_id) = out.resp.body[i].id
                                      /\ d.user_id = out.cur
           /\ \A i, j \in 1..Len(out.resp.body) :
                 out.resp.body[i].id = out.resp.body[j].id => i = j

C7_ListIsExact ==
    \A r \in Req : \A t \in Presentable :
        (out'.op = "list" /\ out'.cur # 0 /\ ListContracts(r, t))
            => LET ids == { out'.resp.body[i].id : i \in 1..Len(out'.resp.body) } IN
               /\ ids = { UuidStr(d.doc_id) : d \in DocsOf(out'.cur) }
               /\ (Sent("upload") /\ out.resp.status = 200 /\ out.cur = out'.cur)
                     => Body.document_id \in ids

C7_List == []C7_ListedAreOwn /\ [][C7_ListIsExact]_vars

\* a user without uploads was listed nothing while another user's document
\* was stored
C7_Witness ==
    /\ Sent("list") /\ out.cur # 0 /\ out.resp.body = <<>>
    /\ documents # {}

\* ---------------------------------------------------------------- C8
\* C8: a login with the email and password of a registered user answers 200
\* with a token that get_current_user, at any time before the token's expiry,
\* resolves to that user; a login with a wrong password answers the same 401
\* "Invalid credentials" as a login with an unregistered email, without token.
C8_TokenResolves ==
    /\ (Sent("login") /\ out.resp.status = 200)
          => /\ Account(out.arg.email, out.arg.password) # {}
             /\ \A u \in Account(out.arg.email, out.arg.password) :
                   /\ Body.user.id = UuidStr(u.user_id)
                   /\ \A t \in 0..(Body.token.exp - 1) :
                         GetCurrentUser(Body.token, t).user_id = u.user_id
             /\ ~JwtValid(Body.token, Body.token.exp)
    /\ (Sent("login") /\ Account(out.arg.email, out.arg.password) = {})
          => out.resp = InvalidCreds

C8_LoginAccepts ==
    \A r \in Req : \A e \in Emails : \A p \in Passwords :
        (out'.op = "login" /\ Account(e, p) # {} /\ Login(r, e, p))
            => out'.resp.status = 200

C8_Login == []C8_TokenResolves /\ [][C8_LoginAccepts]_vars

\* some days after a login its token still resolves to the account
C8_Witness ==
    /\ Sent("login") /\ out.resp.status = 200
    /\ now > Body.token.exp - TokenDays
    /\ GetCurrentUser(Body.token, now).user_id = UuidOf(Body.user.id)

\* ---------------------------------------------------------------- C9
\* C9: query_contracts returns at most TopK sources, and their relevance
\* scores never increase along the list.
C9_RelevanceDescending ==
    (Sent("ask") /\ out.resp.status = 200)
        => /\ Len(Body.sources) <= TopK
           /\ \A i \in 1..(Len(Body.sources) - 1) :
                 Body.sources[i].relevance >= Body.sources[i + 1].relevance

\* ---------------------------------------------------------------- C10
\* C10: for a user who owns no chunk query_contracts answers 200 with no
\* source and with a confidence strictly below the confidence of the answer
\* it gives to a user who owns a chunk.
C10_LowConfidenceWhenEmpty ==
    (Sent("ask") /\ out.cur # 0 /\ out.loc = <<>>)
        => /\ out.resp.status = 200
           /\ Body.sources = <<>>
           /\ \A c \in chunks :
                 Body.confidence < AskResponse(out.arg.query, <<c>>).body[1].confidence

====
